---------------------------- MODULE Spec2Model ----------------------------
(***************************************************************************)
(* Model of the Excel processing service of src/main.py: the table         *)
(* segmenter (ExcelProcessor._extract_tables_from_sheet), the header       *)
(* heuristic (_is_potential_table_header), the value resolver              *)
(* (get_table_row_names, calculate_row_sum, _extract_numeric_value) and    *)
(* the HTTP handlers that wrap them.                                       *)
(*                                                                         *)
(* Text is a TLA+ string; Char(s, i) is its i-th character.  A number is   *)
(* an exact decimal m * 10^(-e).  A cell is absent (NaN), a Python int, a  *)
(* Python float or a str.  A DataFrame is its rows of stored cells plus    *)
(* one dtype per column, because the dtype decides what a row looks like   *)
(* when the code iterates it.                                              *)
(***************************************************************************)
EXTENDS Integers, Sequences, FiniteSets, TLC

VARIABLES
    file,       \* what is at EXCEL_FILE_PATH: Missing, or the workbook's sheets
    processor,  \* the module-level `processor`: None, or [tables |-> registry]
    pc,         \* "boot" before the startup event has run, "serving" after
    last,       \* the response to the last request served
    text,       \* header heuristic under test: its argument
    verdict     \* header heuristic under test: "unset", or its result

vars == <<file, processor, pc, last, text, verdict>>

-----------------------------------------------------------------------------
(* Text                                                                    *)

Char(s, i) == SubSeq(s, i, i)

\* Python's str.isspace() on the characters the model uses.
IsSpace(c) == c \in {" ", "\t"}

UpperAlpha == "ABCDEFGHIJKLMNOPQRSTUVWXYZ"
LowerAlpha == "abcdefghijklmnopqrstuvwxyz"

LowerChar(c) ==
    IF \E i \in 1..Len(UpperAlpha) : Char(UpperAlpha, i) = c
    THEN Char(LowerAlpha, CHOOSE i \in 1..Len(UpperAlpha) : Char(UpperAlpha, i) = c)
    ELSE c

RECURSIVE Lower(_)
\* str.lower()
Lower(s) ==
    IF s = "" THEN ""
    ELSE LowerChar(Char(s, 1)) \o Lower(SubSeq(s, 2, Len(s)))

RECURSIVE LStrip(_)
LStrip(s) ==
    IF s = "" THEN ""
    ELSE IF IsSpace(Char(s, 1)) THEN LStrip(SubSeq(s, 2, Len(s)))
    ELSE s

RECURSIVE RStrip(_)
RStrip(s) ==
    IF s = "" THEN ""
    ELSE IF IsSpace(Char(s, Len(s))) THEN RStrip(SubSeq(s, 1, Len(s) - 1))
    ELSE s

\* str.strip()
Strip(s) == RStrip(LStrip(s))

RECURSIVE SplitFrom(_, _, _)
\* str.split() with no separator: the maximal runs of non-whitespace, left to
\* right; cur is the run being read.
SplitFrom(s, cur, acc) ==
    IF s = "" THEN (IF cur = "" THEN acc ELSE Append(acc, cur))
    ELSE IF IsSpace(Char(s, 1))
         THEN SplitFrom(SubSeq(s, 2, Len(s)), "",
                        IF cur = "" THEN acc ELSE Append(acc, cur))
         ELSE SplitFrom(SubSeq(s, 2, Len(s)), cur \o Char(s, 1), acc)

Split(s) == SplitFrom(s, "", <<>>)

\* Python's `kw in s`
Contains(s, kw) ==
    \E i \in 1..(Len(s) - Len(kw) + 1) : SubSeq(s, i, i + Len(kw) - 1) = kw

-----------------------------------------------------------------------------
(* The header heuristic                                                    *)

header_keywords ==
    <<"investment", "revenue", "expense", "projection", "cash flow",
      "initial", "operating", "capital", "budget", "financial">>

\* The `<= 5` and `> 5` of the short-descriptive-text test.
MaxHeaderTokens == 5
MinHeaderLen == 5

\* A slip in the short-text test: `<` for `<=` on the token count.
is_potential_table_header_m1(t) ==
    IF t = "" \/ Strip(t) = "" THEN FALSE
    ELSE IF \E k \in 1..Len(header_keywords) : Contains(Lower(t), header_keywords[k])
         THEN TRUE
    ELSE Len(Split(t)) < MaxHeaderTokens /\ Len(t) > MinHeaderLen

is_potential_table_header(t) ==
    IF t = "" \/ Strip(t) = "" THEN FALSE
    ELSE IF \E k \in 1..Len(header_keywords) : Contains(Lower(t), header_keywords[k])
         THEN TRUE
    ELSE IF Len(Split(t)) <= MaxHeaderTokens /\ Len(t) > MinHeaderLen THEN TRUE
    ELSE FALSE

-----------------------------------------------------------------------------
(* Numbers: exact decimals m * 10^(-e), and Python's str() and float()     *)

RECURSIVE Pow10(_)
Pow10(n) == IF n = 0 THEN 1 ELSE 10 * Pow10(n - 1)

RECURSIVE Norm(_)
\* The canonical form of a decimal: no trailing zero in the fraction.
Norm(d) ==
    IF d.e > 0 /\ d.m % 10 = 0 THEN Norm([m |-> d.m \div 10, e |-> d.e - 1])
    ELSE d

DecAdd(a, b) ==
    LET e == IF a.e >= b.e THEN a.e ELSE b.e
    IN  Norm([m |-> a.m * Pow10(e - a.e) + b.m * Pow10(e - b.e), e |-> e])

Zero == [m |-> 0, e |-> 0]

DigitChars == "0123456789"
IsDigit(c) == \E i \in 1..Len(DigitChars) : Char(DigitChars, i) = c
DigitVal(c) == (CHOOSE i \in 1..Len(DigitChars) : Char(DigitChars, i) = c) - 1

RECURSIVE NatStr(_)
NatStr(n) ==
    IF n < 10 THEN Char(DigitChars, n + 1)
    ELSE NatStr(n \div 10) \o Char(DigitChars, (n % 10) + 1)

RECURSIVE NatVal(_)
\* The value of a string of digits ("" counts 0).
NatVal(s) ==
    IF s = "" THEN 0
    ELSE 10 * NatVal(SubSeq(s, 1, Len(s) - 1)) + DigitVal(Char(s, Len(s)))

RECURSIVE ZeroPad(_, _)
ZeroPad(s, n) == IF Len(s) >= n THEN s ELSE ZeroPad("0" \o s, n)

\* str(n) of a Python int.
IntStr(n) == IF n < 0 THEN "-" \o NatStr(-n) ELSE NatStr(n)

\* str(x) of a Python float (or numpy.float64) in the positional range of
\* repr: the integer part, a point, and at least one fraction digit.
FloatStr(x) ==
    LET d == Norm(x)
        a == IF d.m < 0 THEN -d.m ELSE d.m
    IN  (IF d.m < 0 THEN "-" ELSE "")
        \o NatStr(a \div Pow10(d.e)) \o "."
        \o (IF d.e = 0 THEN "0" ELSE ZeroPad(NatStr(a % Pow10(d.e)), d.e))

RECURSIVE Cleaned(_)
\* re.sub(r'[^\d.-]', '', value)
Cleaned(s) ==
    IF s = "" THEN ""
    ELSE (IF IsDigit(Char(s, 1)) \/ Char(s, 1) \in {".", "-"} THEN Char(s, 1) ELSE "")
         \o Cleaned(SubSeq(s, 2, Len(s)))

\* float(c) for a string c of digits, points and minus signs: [ok, val];
\* ok is FALSE where float() raises ValueError.
ParseFloat(c) ==
    LET neg  == c # "" /\ Char(c, 1) = "-"
        body == IF neg THEN SubSeq(c, 2, Len(c)) ELSE c
        dots == {i \in 1..Len(body) : Char(body, i) = "."}
        ok   == /\ \A i \in 1..Len(body) : Char(body, i) # "-"
                /\ Cardinality(dots) <= 1
                /\ \E i \in 1..Len(body) : IsDigit(Char(body, i))
        p    == IF dots = {} THEN Len(body) + 1 ELSE CHOOSE i \in dots : TRUE
        pre  == SubSeq(body, 1, p - 1)
        post == SubSeq(body, p + 1, Len(body))
        mag  == NatVal(pre \o post)
    IN  IF ok THEN [ok |-> TRUE,
                    val |-> Norm([m |-> IF neg THEN -mag ELSE mag, e |-> Len(post)])]
        ELSE [ok |-> FALSE, val |-> Zero]

-----------------------------------------------------------------------------
(* Cells                                                                   *)

NaN      == [k |-> "nan",   m |-> 0, e |-> 0, s |-> ""]
PyInt(n) == [k |-> "int",   m |-> n, e |-> 0, s |-> ""]
\* The float m * 10^(-e).
PyFloat(m, e) == [k |-> "float", m |-> Norm([m |-> m, e |-> e]).m,
                  e |-> Norm([m |-> m, e |-> e]).e, s |-> ""]
PyStr(s) == [k |-> "str",   m |-> 0, e |-> 0, s |-> s]

\* pd.notna(value)
notna(cell) == cell.k # "nan"

\* str(value)
py_str(cell) ==
    CASE cell.k = "int"   -> IntStr(cell.m)
      [] cell.k = "float" -> FloatStr([m |-> cell.m, e |-> cell.e])
      [] cell.k = "str"   -> cell.s
      [] OTHER            -> "nan"

\* The value of a number cell.
NumVal(cell) == Norm([m |-> cell.m, e |-> cell.e])

\* _extract_numeric_value: [ok, val]; ok is FALSE where it returns None.
extract_numeric_value(value) ==
    IF value.k \in {"int", "float"} THEN [ok |-> TRUE, val |-> NumVal(value)]
    ELSE IF value.k = "str" /\ Cleaned(value.s) # "" THEN ParseFloat(Cleaned(value.s))
    ELSE [ok |-> FALSE, val |-> Zero]

-----------------------------------------------------------------------------
(* DataFrames                                                              *)

\* The dtype pandas infers for column c of the rows `raw`: int64 when every
\* cell is an int, float64 when every cell is a number or absent, object
\* when a cell is a str.
ColDtype(raw, c) ==
    IF \E r \in 1..Len(raw) : raw[r][c].k = "str" THEN "object"
    ELSE IF \A r \in 1..Len(raw) : raw[r][c].k = "int" THEN "int64"
    ELSE "float64"

\* An int seen through a float64 column or row is that float.
AsFloat(cell) == IF cell.k = "int" THEN PyFloat(cell.m, 0) ELSE cell

Width(raw) == IF raw = <<>> THEN 0 ELSE Len(raw[1])

\* pd.read_excel(..., header=None) of a sheet, and pd.DataFrame(list of rows):
\* the cells as their columns store them, and the columns' dtypes.
DataFrame(raw) ==
    [rows   |-> [r \in 1..Len(raw) |->
                   [c \in 1..Width(raw) |->
                      IF ColDtype(raw, c) = "float64" THEN AsFloat(raw[r][c])
                      ELSE raw[r][c]]],
     dtypes |-> [c \in 1..Width(raw) |-> ColDtype(raw, c)]]

\* The dtype of the Series df.iterrows() yields: the columns' common dtype.
RowDtype(df) ==
    IF \A c \in 1..Len(df.dtypes) : df.dtypes[c] = "int64" THEN "int64"
    ELSE IF \A c \in 1..Len(df.dtypes) : df.dtypes[c] \in {"int64", "float64"}
         THEN "float64"
    ELSE "object"

\* Row r as df.iterrows() yields it: every int is a float when the columns
\* are numeric and not all int64.
iterrow(df, r) ==
    [c \in 1..Len(df.dtypes) |->
       IF RowDtype(df) = "float64" THEN AsFloat(df.rows[r][c]) ELSE df.rows[r][c]]

\* row.isna().all()
isna_all(row) == \A c \in 1..Len(row) : ~notna(row[c])

\* df.dropna(how='all'): the rows not entirely absent, dtypes kept.
dropna_all(df) ==
    [rows |-> SelectSeq(df.rows, LAMBDA row : ~isna_all(row)), dtypes |-> df.dtypes]

\* df.empty
empty(df) == Len(df.rows) = 0 \/ Len(df.dtypes) = 0

RECURSIVE JoinFrom(_, _)
\* ' '.join(parts)
JoinFrom(parts, i) ==
    IF i > Len(parts) THEN ""
    ELSE IF i = Len(parts) THEN parts[i]
    ELSE parts[i] \o " " \o JoinFrom(parts, i + 1)

\* ' '.join([str(cell) for cell in row.dropna()])
RowStr(row) ==
    LET kept == SelectSeq(row, notna)
    IN  JoinFrom([i \in 1..Len(kept) |-> py_str(kept[i])], 1)

-----------------------------------------------------------------------------
(* A dict, in insertion order: a sequence of [name, df] with distinct names *)

HasKey(d, k) == \E i \in 1..Len(d) : d[i].name = k
Get(d, k) == d[CHOOSE i \in 1..Len(d) : d[i].name = k].df
Keys(d) == [i \in 1..Len(d) |-> d[i].name]

\* A slip: the first entry of a name is kept, a later one dropped.
DictSet_m1(d, k, v) ==
    IF HasKey(d, k) THEN d ELSE Append(d, [name |-> k, df |-> v])

\* d[k] = v
DictSet(d, k, v) ==
    IF HasKey(d, k)
    THEN [i \in 1..Len(d) |-> IF d[i].name = k THEN [name |-> k, df |-> v] ELSE d[i]]
    ELSE Append(d, [name |-> k, df |-> v])

RECURSIVE DictUpdate(_, _, _)
\* d.update(other), from other's i-th entry on
DictUpdate(d, other, i) ==
    IF i > Len(other) THEN d
    ELSE DictUpdate(DictSet(d, other[i].name, other[i].df), other, i + 1)

-----------------------------------------------------------------------------
(* The segmenter                                                           *)

\* Lines 72-74 and 85-87: the table being read is saved when it has a name
\* and rows.
Commit(tables, name, data) ==
    IF name # "" /\ data # <<>> THEN DictSet(tables, name, DataFrame(data))
    ELSE tables

RECURSIVE Scan_m1(_, _, _, _, _)
\* A slip: current_table_data is not reset when a header starts a new table.
Scan_m1(df, i, name, data, tables) ==
    IF i > Len(df.rows) THEN Commit(tables, name, data)
    ELSE LET row == iterrow(df, i)
             row_str == RowStr(row)
         IN  IF is_potential_table_header(row_str)
             THEN Scan_m1(df, i + 1, Strip(row_str), data, Commit(tables, name, data))
             ELSE IF name # "" /\ ~isna_all(row)
                  THEN Scan_m1(df, i + 1, name, Append(data, row), tables)
             ELSE Scan_m1(df, i + 1, name, data, tables)

RECURSIVE Scan(_, _, _, _, _)
\* The loop of lines 65-82 from row i on, then the save of lines 85-87.
\* name = "" stands for current_table_name = None (both are falsy, and a
\* header's stripped text is never empty).
Scan(df, i, name, data, tables) ==
    IF i > Len(df.rows) THEN Commit(tables, name, data)
    ELSE LET row == iterrow(df, i)
             row_str == RowStr(row)
         IN  IF is_potential_table_header(row_str)
             THEN Scan(df, i + 1, Strip(row_str), <<>>, Commit(tables, name, data))
             ELSE IF name # "" /\ ~isna_all(row)
                  THEN Scan(df, i + 1, name, Append(data, row), tables)
             ELSE Scan(df, i + 1, name, data, tables)

\* A slip: the whole-sheet table is made even when the sheet has no data.
extract_tables_from_sheet_m1(df, sheet_name) ==
    LET tables == Scan(df, 1, "", <<>>, <<>>)
    IN  IF tables = <<>>
        THEN <<[name |-> sheet_name \o "_data", df |-> dropna_all(df)]>>
        ELSE tables

\* _extract_tables_from_sheet
extract_tables_from_sheet(df, sheet_name) ==
    LET tables == Scan(df, 1, "", <<>>, <<>>)
    IN  IF tables = <<>>
        THEN IF ~empty(dropna_all(df))
             THEN <<[name |-> sheet_name \o "_data", df |-> dropna_all(df)]>>
             ELSE <<>>
        ELSE tables

RECURSIVE identify_tables(_, _, _)
\* _identify_tables from the i-th sheet on; sheets_data is a dict too.
identify_tables(sheets_data, i, tables) ==
    IF i > Len(sheets_data) THEN tables
    ELSE identify_tables(sheets_data, i + 1,
            DictUpdate(tables,
                       extract_tables_from_sheet(sheets_data[i].df, sheets_data[i].name),
                       1))

-----------------------------------------------------------------------------
(* The value resolver.  A method's outcome is [err, val]: err = "" when it *)
(* returns val, else the ValueError it raises.                             *)

TableNotFound == "Table not found"
RowNotFound == "Row not found in table"

\* get_table_names
get_table_names(tables) == Keys(tables)

RECURSIVE RowNamesFrom(_, _, _)
\* The loop of lines 140-142 over the first column, from row r on.
RowNamesFrom(df, r, row_names) ==
    IF r > Len(df.rows) THEN row_names
    ELSE LET value == df.rows[r][1]
         IN  IF notna(value) /\ Strip(py_str(value)) # ""
             THEN RowNamesFrom(df, r + 1, Append(row_names, Strip(py_str(value))))
             ELSE RowNamesFrom(df, r + 1, row_names)

\* A slip: the label is listed as it stands, not stripped.
get_table_row_names_m1(tables, table_name) ==
    IF ~HasKey(tables, table_name) THEN [err |-> TableNotFound, val |-> <<>>]
    ELSE LET df == Get(tables, table_name)
             col == SelectSeq([r \in 1..Len(df.rows) |-> df.rows[r][1]],
                              LAMBDA v : notna(v) /\ Strip(py_str(v)) # "")
         IN  [err |-> "", val |-> [i \in 1..Len(col) |-> py_str(col[i])]]

\* get_table_row_names
get_table_row_names(tables, table_name) ==
    IF ~HasKey(tables, table_name) THEN [err |-> TableNotFound, val |-> <<>>]
    ELSE IF empty(Get(tables, table_name)) THEN [err |-> "", val |-> <<>>]
    ELSE [err |-> "", val |-> RowNamesFrom(Get(tables, table_name), 1, <<>>)]

RECURSIVE FindRow(_, _, _)
\* The loop of lines 155-158: the first row, from r on, whose first cell
\* matches; 0 stands for target_row = None.
FindRow(df, r, row_name) ==
    IF r > Len(df.rows) THEN 0
    ELSE LET row == iterrow(df, r)
         IN  IF notna(row[1]) /\ Strip(py_str(row[1])) = row_name THEN r
             ELSE FindRow(df, r + 1, row_name)

RECURSIVE SumFrom(_, _, _)
\* The loop of lines 165-170 over target_row.iloc[1:], from cell c on.
SumFrom(row, c, numerical_sum) ==
    IF c > Len(row) THEN numerical_sum
    ELSE IF notna(row[c]) /\ extract_numeric_value(row[c]).ok
         THEN SumFrom(row, c + 1, DecAdd(numerical_sum, extract_numeric_value(row[c]).val))
    ELSE SumFrom(row, c + 1, numerical_sum)

\* calculate_row_sum
calculate_row_sum(tables, table_name, row_name) ==
    IF ~HasKey(tables, table_name) THEN [err |-> TableNotFound, val |-> Zero]
    ELSE LET df == Get(tables, table_name)
             target == FindRow(df, 1, row_name)
         IN  IF target = 0 THEN [err |-> RowNotFound, val |-> Zero]
             ELSE [err |-> "", val |-> SumFrom(iterrow(df, target), 2, Zero)]

-----------------------------------------------------------------------------
(* Loading                                                                 *)

\* What is at EXCEL_FILE_PATH: nothing, a file pd.ExcelFile cannot read, or
\* a workbook: its sheets in order, each [name, grid].
Missing == [state |-> "missing", sheets |-> <<>>]
Corrupt == [state |-> "corrupt", sheets |-> <<>>]
Workbook(sheets) == [state |-> "ok", sheets |-> sheets]

\* load_excel_file: [ok, tables]; ok is FALSE where it raises.
load_excel_file(f) ==
    IF f.state # "ok" THEN [ok |-> FALSE, tables |-> <<>>]
    ELSE [ok |-> TRUE,
          tables |-> identify_tables(
                        [i \in 1..Len(f.sheets) |->
                           [name |-> f.sheets[i].name, df |-> DataFrame(f.sheets[i].grid)]],
                        1, <<>>)]

\* `processor`: None, or an ExcelProcessor with its tables.
None == [bound |-> FALSE, tables |-> <<>>]
ExcelProcessor(tables) == [bound |-> TRUE, tables |-> tables]

\* initialize_processor: the value `processor` is left with.  It is bound to
\* the new ExcelProcessor (tables = {}) before load_excel_file runs, so a
\* failed load leaves that object behind.
initialize_processor(f) == ExcelProcessor(load_excel_file(f).tables)

-----------------------------------------------------------------------------
(* The HTTP handlers: [op, table_name, row_name, status, detail, body]     *)

NotInitialized == "Excel processor not initialized"

Response(op, t, r, status, detail, body) ==
    [op |-> op, table_name |-> t, row_name |-> r,
     status |-> status, detail |-> detail, body |-> body]

NoResponse == Response("none", "", "", 0, "", <<>>)

\* list_tables
list_tables(proc) ==
    IF proc = None THEN Response("list_tables", "", "", 500, NotInitialized, <<>>)
    ELSE Response("list_tables", "", "", 200, "", get_table_names(proc.tables))

\* get_table_details
get_table_details(proc, table_name) ==
    IF proc = None
    THEN Response("get_table_details", table_name, "", 500, NotInitialized, <<>>)
    ELSE LET res == get_table_row_names(proc.tables, table_name)
         IN  IF res.err # ""
             THEN Response("get_table_details", table_name, "", 404, res.err, <<>>)
             ELSE Response("get_table_details", table_name, "", 200, "", res.val)

\* row_sum
row_sum(proc, table_name, row_name) ==
    IF proc = None
    THEN Response("row_sum", table_name, row_name, 500, NotInitialized, Zero)
    ELSE LET res == calculate_row_sum(proc.tables, table_name, row_name)
         IN  IF res.err # ""
             THEN Response("row_sum", table_name, row_name, 404, res.err, Zero)
             ELSE Response("row_sum", table_name, row_name, 200, "", res.val)

\* health_check
health_check(proc) ==
    Response("health", "", "", 200, "healthy", proc # None)

\* root
root == Response("root", "", "", 200, "Excel Processing API", <<>>)

-----------------------------------------------------------------------------
(* The inputs                                                              *)

\* Rows per sheet in the enumerated workbooks.
MaxRows == 3

hBudget == <<PyStr("Budget"), NaN>>         \* a header: keyword
hTotals == <<PyStr("Totals"), NaN>>         \* a header: short text
hS2data == <<PyStr("S2_data"), NaN>>        \* a header: short text
rBlank  == <<NaN, NaN>>                     \* entirely absent
rA1     == <<PyStr("a"), PyInt(1)>>         \* label "a"
rA2     == <<PyStr(" a"), PyStr("$2")>>     \* label "a" again, once stripped
rNum    == <<PyInt(1), PyFloat(25, 1)>>     \* a number as label: 1, 2.5
rNoLbl  == <<NaN, PyInt(7)>>                \* label absent
rSpLbl  == <<PyStr(" "), PyInt(3)>>         \* label blank

RowPool == {hBudget, rBlank, rA1, rA2, rNum, rNoLbl}

Grids(pool, n) == UNION {[1..k -> pool] : k \in 0..n}

Sheet(name, grid) == [name |-> name, grid |-> grid]

\* One sheet of up to MaxRows rows.
OneSheetFiles == {Workbook(<<Sheet("S1", g)>>) : g \in Grids(RowPool, MaxRows)}

\* Two sheets: up to MaxRows - 1 rows, then a header and a row at most.
TwoSheetFiles ==
    {Workbook(<<Sheet("S1", g1), Sheet("S2", g2)>>) :
        g1 \in Grids({hBudget, rA1, rNum}, MaxRows - 1),
        g2 \in {<<>>, <<hBudget>>, <<rA2>>, <<hBudget, rA2>>, <<hBudget, rNum>>}}

\* The row of the worked example, and a row with nothing to sum.
rExample == <<PyStr("Initial Investment"), PyInt(1000), PyStr("$2,000"),
              PyStr("abc"), NaN, PyStr("15%")>>
rNoSum   == <<PyStr("Notes"), PyStr("abc"), NaN, PyStr("12-3"), PyStr("-"), PyStr("1.2.3")>>

ScenarioFiles ==
    {Missing, Corrupt,
     Workbook(<<Sheet("S1", <<rExample, rNoSum>>)>>),
     Workbook(<<Sheet("S1", <<rA1, rSpLbl, rA2, rNoLbl>>)>>),
     Workbook(<<Sheet("S1", <<hBudget, rA1, hBudget, rA2>>)>>),
     Workbook(<<Sheet("S1", <<hTotals, rSpLbl, rA1, hBudget, rNoLbl>>)>>),
     Workbook(<<Sheet("S1", <<hS2data, rA1, hS2data, rA2>>), Sheet("S2", <<rNoLbl>>)>>),
     Workbook(<<Sheet("S1", <<rNum, hBudget, rA1, hBudget, rA2, hBudget, rBlank,
                              hTotals, rNum>>)>>)}

Files == OneSheetFiles \cup TwoSheetFiles \cup ScenarioFiles

\* The names and labels requests ask for: those the registry holds, and some
\* it may not.
TableArgs(proc) ==
    {proc.tables[i].name : i \in 1..Len(proc.tables)} \cup {"nope"}

RowArgs(proc) ==
    UNION {{get_table_row_names(proc.tables, proc.tables[i].name).val[j] :
               j \in 1..Len(get_table_row_names(proc.tables, proc.tables[i].name).val)} :
           i \in 1..Len(proc.tables)}
    \cup {"A", "1.0", ""}

-----------------------------------------------------------------------------
(* The service                                                             *)

Init ==
    /\ file \in Files
    /\ processor = None
    /\ pc = "boot"
    /\ last = NoResponse
    /\ text = ""
    /\ verdict = "unset"

\* startup_event: runs once, before any request is served.
Startup ==
    /\ pc = "boot"
    /\ processor' = initialize_processor(file)
    /\ pc' = "serving"
    /\ UNCHANGED <<file, last, text, verdict>>

\* GET /list_tables
ListTables ==
    /\ pc = "serving"
    /\ last' = list_tables(processor)
    /\ UNCHANGED <<file, processor, pc, text, verdict>>

\* A slip: the handler takes the table it lists out of the registry.
GetTableDetails_m1 ==
    /\ pc = "serving"
    /\ \E t \in TableArgs(processor) :
          /\ last' = get_table_details(processor, t)
          /\ processor' = [processor EXCEPT !.tables =
                              SelectSeq(processor.tables, LAMBDA e : e.name # t)]
    /\ UNCHANGED <<file, pc, text, verdict>>

\* GET /get_table_details?table_name=t
GetTableDetails ==
    /\ pc = "serving"
    /\ \E t \in TableArgs(processor) : last' = get_table_details(processor, t)
    /\ UNCHANGED <<file, processor, pc, text, verdict>>

\* GET /row_sum?table_name=t&row_name=r
RowSum ==
    /\ pc = "serving"
    /\ \E t \in TableArgs(processor), r \in RowArgs(processor) :
          last' = row_sum(processor, t, r)
    /\ UNCHANGED <<file, processor, pc, text, verdict>>

\* GET /health
HealthCheck ==
    /\ pc = "serving"
    /\ last' = health_check(processor)
    /\ UNCHANGED <<file, processor, pc, text, verdict>>

\* GET /
Root ==
    /\ pc = "serving"
    /\ last' = root
    /\ UNCHANGED <<file, processor, pc, text, verdict>>

Next == Startup \/ ListTables \/ GetTableDetails \/ RowSum \/ HealthCheck \/ Root

Spec == Init /\ [][Next]_vars

-----------------------------------------------------------------------------
(* The header heuristic on its own                                         *)

\* Length of the enumerated texts.
MaxTextLen == 11

RECURSIVE Strings(_, _)
\* Every string over `alphabet` of length n or less.
Strings(alphabet, n) ==
    IF n = 0 THEN {""}
    ELSE LET shorter == Strings(alphabet, n - 1)
         IN  shorter \cup {s \o c : s \in {x \in shorter : Len(x) = n - 1}, c \in alphabet}

\* Keywords, near-keywords and their capitalisations, between a prefix and a
\* suffix that bring the token count to either side of the limit.
KeywordTexts ==
    {pre \o kw \o post :
        pre  \in {"", " ", "x\t", "a b c d e ", "Q1 Q2 Q3 Q4 Q5 "},
        kw   \in {header_keywords[k] : k \in 1..Len(header_keywords)}
                 \cup {"BUDGET", "Cash Flow", "cash  flow", "cashflow", "budge", "Initial"},
        post \in {"", " ", "s", " Summary", " y z"}}

Texts ==
    Strings({"a", " "}, MaxTextLen) \cup KeywordTexts
    \cup {"Cash Flow Summary", "Q1 Q2 Q3 Q4 Q5 Q6", "", "\t \t", "a\tb\tc\td\te\tf"}

InitHeader ==
    /\ text \in Texts
    /\ verdict = "unset"
    /\ file = Missing
    /\ processor = None
    /\ pc = "boot"
    /\ last = NoResponse

\* One call of _is_potential_table_header(text).
Classify ==
    /\ verdict = "unset"
    /\ verdict' = IF is_potential_table_header(text) THEN "True" ELSE "False"
    /\ UNCHANGED <<file, processor, pc, last, text>>

NextHeader == Classify

SpecHeader == InitHeader /\ [][NextHeader]_vars

-----------------------------------------------------------------------------
(* Claims                                                                  *)

\* The places where a token of t starts: a non-space at the start or after a
\* space.
TokenStarts(t) ==
    {i \in 1..Len(t) : ~IsSpace(Char(t, i)) /\ (i = 1 \/ IsSpace(Char(t, i - 1)))}

HasKeyword(t) ==
    \E kw \in {"investment", "revenue", "expense", "projection", "cash flow",
               "initial", "operating", "capital", "budget", "financial"} :
       \E i \in 1..Len(t) :
          i + Len(kw) - 1 <= Len(t) /\ Lower(SubSeq(t, i, i + Len(kw) - 1)) = kw

\* C8: isHeaderCandidate(text) is false for empty or whitespace-only text;
\* otherwise it is true exactly when the lower-cased text contains one of the
\* ten keywords, or the text has at most 5 whitespace-separated tokens and
\* more than 5 characters; "Cash Flow Summary" is a candidate, and
\* "Q1 Q2 Q3 Q4 Q5 Q6" and "" are not.
T_C8 ==
    /\ verdict # "unset" =>
          (verdict = "True") <=>
             /\ \E i \in 1..Len(text) : ~IsSpace(Char(text, i))
             /\ \/ HasKeyword(text)
                \/ Cardinality(TokenStarts(text)) <= 5 /\ Len(text) > 5
    /\ (text = "Cash Flow Summary" /\ verdict # "unset") => verdict = "True"
    /\ (text \in {"Q1 Q2 Q3 Q4 Q5 Q6", ""} /\ verdict # "unset") => verdict = "False"

\* A text of more than five tokens that is a header only by its keyword.
W_C8 ==
    /\ verdict = "True"
    /\ Cardinality(TokenStarts(text)) > 5
    /\ HasKeyword(text)

Query(op) == op \in {"list_tables", "get_table_details", "row_sum"}

ServiceUnavailable(resp) == resp.status = 500 /\ resp.detail = NotInitialized
NotFound(resp) == resp.status = 404

\* C1: if loading the source file fails, the registry is left empty and every
\* later query fails with ServiceUnavailable; none succeeds or reports NotFound.
CE_C1 ==
    (pc = "serving" /\ file.state # "ok") =>
        /\ processor.tables = <<>>
        /\ Query(last.op) => ServiceUnavailable(last)

\* The trimmed string form of the first cell of row r, as the table's first
\* column holds it.
Label(df, r) == Strip(py_str(df.rows[r][1]))

\* The rows of df whose first cell is present.
Present(df) == {r \in 1..Len(df.rows) : notna(df.rows[r][1])}

\* The rows of df that have a label: first cell present, not blank.
Labelled(df) == {r \in 1..Len(df.rows) : notna(df.rows[r][1]) /\ Label(df, r) # ""}

\* The k-th smallest member of a set of numbers.
Nth(S, k) == CHOOSE x \in S : Cardinality({y \in S : y < x}) = k - 1

\* C5: listRowLabels on a known table returns exactly the trimmed string forms
\* of the first cells of the table's data rows, in row order, leaving out the
\* rows whose first cell is absent or blank and nothing else.
T_C5 ==
    (last.op = "get_table_details" /\ HasKey(processor.tables, last.table_name)) =>
        LET df == Get(processor.tables, last.table_name)
        IN  /\ last.status = 200
            /\ Len(last.body) = Cardinality(Labelled(df))
            /\ \A k \in 1..Len(last.body) : last.body[k] = Label(df, Nth(Labelled(df), k))

\* A listing that keeps a duplicate label, strips one, and leaves a row out.
W_C5 ==
    /\ last.op = "get_table_details" /\ last.status = 200
    /\ Len(last.body) >= 2 /\ last.body[1] = last.body[2]
    /\ LET df == Get(processor.tables, last.table_name)
       IN  /\ Len(df.rows) > Len(last.body)
           /\ \E r \in Labelled(df) : py_str(df.rows[r][1]) # Label(df, r)

\* C10: sumRow never fails with NotFound on a label that listRowLabels
\* returned for the same table.
CE_C10 ==
    (last.op = "row_sum" /\ HasKey(processor.tables, last.table_name)) =>
        LET df == Get(processor.tables, last.table_name)
        IN  (\E r \in Labelled(df) : Label(df, r) = last.row_name) => ~NotFound(last)

\* What a cell adds to a row's sum: its value when it is a number, the value
\* of its digits, points and minus signs when it is text they make a number
\* of, and 0 otherwise.
Coerced(cell) ==
    CASE cell.k \in {"int", "float"} -> NumVal(cell)
      [] cell.k = "str" /\ Cleaned(cell.s) # "" /\ ParseFloat(Cleaned(cell.s)).ok
            -> ParseFloat(Cleaned(cell.s)).val
      [] OTHER -> Zero

RECURSIVE SumAfterFirst(_, _)
\* The sum of Coerced over cells c and on of a row.
SumAfterFirst(row, c) ==
    IF c > Len(row) THEN Zero ELSE DecAdd(Coerced(row[c]), SumAfterFirst(row, c + 1))

\* C4: sumRow on a known table selects the first data row whose first cell is
\* present and whose trimmed string form equals rowLabel, and returns the sum
\* of the coerced values of the cells after the first; the example row yields
\* 3015 and a row with no coercible cell yields 0.
CE_C4 ==
    (last.op = "row_sum" /\ HasKey(processor.tables, last.table_name)) =>
        LET df == Get(processor.tables, last.table_name)
            hits == {r \in Present(df) : Label(df, r) = last.row_name}
        IN  hits # {} =>
               /\ last.status = 200
               /\ last.body = SumAfterFirst(df.rows[Nth(hits, 1)], 2)

\* C6: with a loaded registry, a query naming a table the registry lacks
\* fails with NotFound in listRowLabels and in sumRow; one naming a table it
\* holds never fails in listRowLabels, and fails in sumRow, with NotFound,
\* exactly when no data row's trimmed first cell equals the row label.
CE_C6 ==
    (pc = "serving" /\ file.state = "ok"
       /\ last.op \in {"get_table_details", "row_sum"}) =>
        IF ~HasKey(processor.tables, last.table_name) THEN NotFound(last)
        ELSE LET df == Get(processor.tables, last.table_name)
             IN  /\ last.op = "get_table_details" => last.status = 200
                 /\ last.op = "row_sum" =>
                       /\ last.status \in {200, 404}
                       /\ NotFound(last) <=>
                             ~\E r \in Present(df) : Label(df, r) = last.row_name

\* The answer to a request (op, t, r) from the registry as it was loaded.
Answer(op, t, r) ==
    CASE op = "list_tables"       -> list_tables(initialize_processor(file))
      [] op = "get_table_details" -> get_table_details(initialize_processor(file), t)
      [] op = "row_sum"           -> row_sum(initialize_processor(file), t, r)
      [] op = "health"            -> health_check(initialize_processor(file))
      [] op = "root"              -> root
      [] OTHER                    -> NoResponse

\* Every answer given so far is the one the registry as loaded gives.
AnsweredAsLoaded ==
    (pc = "serving" /\ last.op # "none") =>
        last = Answer(last.op, last.table_name, last.row_name)

\* C7: after load, no query (list tables, list row labels, sum row, health)
\* changes the registry, whether it succeeds or fails; so every answer is the
\* one the registry as loaded gives, and two queries with the same arguments
\* get the same result.
T_C7 ==
    /\ [][pc = "serving" => processor' = processor]_vars
    /\ []AnsweredAsLoaded

\* A failed query has been answered after the load.
W_C7 ==
    /\ pc = "serving" /\ file.state = "ok"
    /\ last.op = "row_sum" /\ NotFound(last) /\ last.detail = RowNotFound
    /\ processor.tables # <<>>

-----------------------------------------------------------------------------
(* Claims about the segmenter.  A sheet's grid is the DataFrame pandas      *)
(* reads it into; a row is a header row when the text the scan renders it  *)
(* to is a header candidate.                                               *)

\* The workbook has just been loaded: no request has been served yet.
Loaded == pc = "serving" /\ file.state = "ok" /\ last.op = "none"

SheetDF(i) == DataFrame(file.sheets[i].grid)
SheetName(i) == file.sheets[i].name

Headers(df) ==
    {r \in 1..Len(df.rows) : is_potential_table_header(RowStr(iterrow(df, r)))}

NonBlank(df) == {r \in 1..Len(df.rows) : \E c \in 1..Len(df.rows[r]) : df.rows[r][c].k # "nan"}

\* The rows of header h's segment: not blank, after h, and with no header
\* row from h to them.
Seg(df, h) ==
    {r \in NonBlank(df) \ Headers(df) :
        r > h /\ ~\E h2 \in Headers(df) : h < h2 /\ h2 < r}

HeaderName(df, h) == Strip(RowStr(iterrow(df, h)))

\* The same cell, whether a number is held as an int or as a float.
SameCell(a, b) ==
    \/ a.k = "nan" /\ b.k = "nan"
    \/ a.k = "str" /\ b.k = "str" /\ a.s = b.s
    \/ a.k \in {"int", "float"} /\ b.k \in {"int", "float"} /\ NumVal(a) = NumVal(b)

SameRow(x, y) == Len(x) = Len(y) /\ \A c \in 1..Len(x) : SameCell(x[c], y[c])

\* The rows of `rows` are those of df at the places R, in order.
RowsAre(rows, df, R) ==
    /\ Len(rows) = Cardinality(R)
    /\ \A k \in 1..Len(rows) : SameRow(rows[k], df.rows[Nth(R, k)])

\* The rows of `rows` are some of those of df at the places R, in order.
RowsAmong(rows, df, R) ==
    \E f \in [1..Len(rows) -> R] :
       /\ \A j, k \in 1..Len(rows) : j < k => f[j] < f[k]
       /\ \A k \in 1..Len(rows) : SameRow(rows[k], df.rows[f[k]])

\* What the segmenter made of sheet i: the registry itself when the workbook
\* has that sheet only.
Out(i) ==
    IF Len(file.sheets) = 1 THEN processor.tables
    ELSE extract_tables_from_sheet(SheetDF(i), SheetName(i))

\* The whole-sheet table of sheet i, and nothing else.
IsFallback(tables, i) ==
    /\ Len(tables) = 1
    /\ tables[1].name = SheetName(i) \o "_data"
    /\ RowsAre(tables[1].df.rows, SheetDF(i), NonBlank(SheetDF(i)))

\* C2 as stated: for every grid with no header-candidate row, a grid with no
\* rows or only absent rows included, the segmenter produces exactly one
\* table, "{sheet}_data", holding the rows not entirely absent, in order.
CE_C2 ==
    Loaded => \A i \in 1..Len(file.sheets) :
        Headers(SheetDF(i)) = {} => IsFallback(Out(i), i)

\* C2: for every grid with no header-candidate row and at least one row not
\* entirely absent, the segmenter produces exactly one table, "{sheet}_data",
\* holding the rows not entirely absent, in order; for a grid with no rows or
\* only absent rows it produces no table.
T_C2 ==
    Loaded => \A i \in 1..Len(file.sheets) :
        Headers(SheetDF(i)) = {} =>
            IF NonBlank(SheetDF(i)) # {} THEN IsFallback(Out(i), i)
            ELSE Out(i) = <<>>

\* A sheet without header rows, with a blank row among its data, was loaded.
W_C2 ==
    /\ Loaded /\ Len(file.sheets) = 1
    /\ Headers(SheetDF(1)) = {}
    /\ Cardinality(NonBlank(SheetDF(1))) >= 2
    /\ Cardinality(NonBlank(SheetDF(1))) < Len(SheetDF(1).rows)
    /\ Len(processor.tables) = 1

\* Table t is the segment of a header row of df: named by it, holding only
\* rows of its segment.
FromHeader(t, df) ==
    \E h \in Headers(df) :
       t.name = HeaderName(df, h) /\ RowsAmong(t.df.rows, df, Seg(df, h))

\* Table t is the segment of a header row of df: named by it, holding the
\* rows of its segment, all of them.
IsSegment(t, df) ==
    \E h \in Headers(df) :
       t.name = HeaderName(df, h) /\ RowsAre(t.df.rows, df, Seg(df, h))

\* C3 as stated: for every grid with a header-candidate row, each table holds
\* only rows strictly between its header row and the next (or the end), there
\* are at most as many tables as header rows, and no row before the first
\* header and no header row is in any table.
CE_C3 ==
    Loaded => \A i \in 1..Len(file.sheets) :
        Headers(SheetDF(i)) # {} =>
            /\ \A t \in 1..Len(Out(i)) : FromHeader(Out(i)[t], SheetDF(i))
            /\ Len(Out(i)) <= Cardinality(Headers(SheetDF(i)))

\* C3: for every grid in which some header row is followed, before the next
\* header row, by a row that is neither blank nor a header, each table holds
\* exactly the non-blank rows strictly between its header row and the next (or
\* the end), there are at most as many tables as header rows, and no row
\* before the first header and no header row is in any table; for a grid with
\* header rows none of which is so followed, the single table "{sheet}_data"
\* holds every non-blank row, header rows included.
T_C3 ==
    Loaded => \A i \in 1..Len(file.sheets) :
        LET df == SheetDF(i)
        IN  Headers(df) # {} =>
               IF \E h \in Headers(df) : Seg(df, h) # {}
               THEN /\ \A t \in 1..Len(Out(i)) : IsSegment(Out(i)[t], df)
                    /\ Len(Out(i)) <= Cardinality(Headers(df))
               ELSE IsFallback(Out(i), i)

\* A sheet with a data row before its first header and two headers that
\* each have data was loaded.
W_C3 ==
    /\ Loaded /\ Len(file.sheets) = 1
    /\ LET df == SheetDF(1)
       IN  /\ \E r \in NonBlank(df) \ Headers(df) : \A h \in Headers(df) : r < h
           /\ Cardinality({h \in Headers(df) : Seg(df, h) # {}}) >= 2
    /\ Len(processor.tables) = 2

\* The committed segments of the workbook, each <<sheet, header row>>: the
\* headers followed by a row of their own.
Commits ==
    {p \in UNION {{<<i, h>> : h \in Headers(SheetDF(i))} : i \in 1..Len(file.sheets)} :
        Seg(SheetDF(p[1]), p[2]) # {}}

CommitName(p) == HeaderName(SheetDF(p[1]), p[2])

\* p comes after q in scan order: sheets in order, rows top to bottom.
After(p, q) == p[1] > q[1] \/ (p[1] = q[1] /\ p[2] > q[2])

CommitsNamed(n) == {p \in Commits : CommitName(p) = n}

LastCommit(n) == CHOOSE p \in CommitsNamed(n) : \A q \in CommitsNamed(n) : ~After(q, p)

\* The sheets that have no committed segment, but rows, and so contribute
\* their whole-sheet table under the name n.
FallbacksNamed(n) ==
    {i \in 1..Len(file.sheets) :
        /\ SheetName(i) \o "_data" = n
        /\ NonBlank(SheetDF(i)) # {}
        /\ ~\E p \in Commits : p[1] = i}

Entries(n) == {t \in 1..Len(processor.tables) : processor.tables[t].name = n}

\* The registry's entry for n holds the rows of committed segment p.
HoldsCommit(n, p) ==
    RowsAre(Get(processor.tables, n).rows, SheetDF(p[1]), Seg(SheetDF(p[1]), p[2]))

\* C9 as stated: when two committed segments share a table name, in one sheet
\* or across sheets, the registry holds a single entry for that name, with
\* the rows of the segment committed last in scan order; a header with no
\* data row before the next header commits nothing and overwrites nothing.
CE_C9 ==
    Loaded => \A n \in {CommitName(p) : p \in Commits} :
        Cardinality(CommitsNamed(n)) >= 2 =>
            /\ Cardinality(Entries(n)) = 1
            /\ HoldsCommit(n, LastCommit(n))

\* C9: when two committed segments share a table name, the registry holds a
\* single entry for that name; its rows are those of the segment committed
\* last in scan order, unless a later sheet without any committed segment
\* puts its whole-sheet table "{sheet}_data" under that very name, whose rows
\* the entry then holds; a header with no data row before the next header
\* commits nothing and overwrites nothing.
T_C9 ==
    Loaded => \A n \in {CommitName(p) : p \in Commits} :
        Cardinality(CommitsNamed(n)) >= 2 =>
            /\ Cardinality(Entries(n)) = 1
            /\ LET later == {i \in FallbacksNamed(n) : i > LastCommit(n)[1]}
               IN  IF later = {} THEN HoldsCommit(n, LastCommit(n))
                   ELSE LET i == CHOOSE x \in later : \A y \in later : y <= x
                        IN  RowsAre(Get(processor.tables, n).rows,
                                    SheetDF(i), NonBlank(SheetDF(i)))

\* A name was committed twice in one sheet, and a third header of that name,
\* later still, had no data.
W_C9 ==
    /\ Loaded
    /\ \E p, q \in Commits :
          /\ p[1] = q[1] /\ After(p, q) /\ CommitName(p) = CommitName(q)
          /\ ~SameRow(SheetDF(p[1]).rows[Nth(Seg(SheetDF(p[1]), p[2]), 1)],
                      SheetDF(q[1]).rows[Nth(Seg(SheetDF(q[1]), q[2]), 1)])
          /\ \E h \in Headers(SheetDF(p[1])) :
                /\ h > p[2] /\ HeaderName(SheetDF(p[1]), h) = CommitName(p)
                /\ Seg(SheetDF(p[1]), h) = {}

\* Two sheets committed the same name.
W_C9_sheets ==
    /\ Loaded
    /\ \E p, q \in Commits : p[1] > q[1] /\ CommitName(p) = CommitName(q)

=============================================================================
